---- MODULE Spec2Model ----
(***************************************************************************)
(* Elapsed timer (timer_service.py) and timetable notification manager     *)
(* (notification_manager.py) of the activity planner.                      *)
(*                                                                         *)
(* Time is counted in clock ticks since midnight, TicksPerSecond ticks to  *)
(* the second, so that clock readings between whole seconds exist.         *)
(* A handler runs to completion in one step (single-threaded Qt loop).     *)
(* The record `sys` holds the fields of the TimerService and the           *)
(* NotificationManager objects, the storage tables they write, and what    *)
(* the last handler produced (signals, visible notifications, writes).     *)
(***************************************************************************)
EXTENDS Integers, Sequences, FiniteSets, TLC

VARIABLES now, timetable, sys, shadow

vars == <<now, timetable, sys, shadow>>

\* ---------------------------------------------------------------- bounds
TicksPerSecond == 2
MaxSessions == 2
MaxUserStarts == 1
TimerHorizon == 4
MaxSnoozes == 2
DriverHorizon == 3
NotifyHorizon == 8
PairHorizon == 2
MaxEntries == 2
FailHorizon == 3
TickHorizon == 3
RebuildHorizon == 5
SyncHorizon == 3
MaxSlots == 3
MaxRetries == 2
ClockHorizon == 2
RestartHorizon == 2
StopFailHorizon == 3
PunctualHorizon == 4
LateHorizon == 3
FrameHorizon == 2
SaveBuildHorizon == 1
MaxSavedSlots == 2

\* ------------------------------------------------------------- constants
None == -1

ActivityIds == {1, 2}

ClockStart == ((8 * 60) + 59) * 60 * TicksPerSecond

\* ------------------------------------------------------- output helpers
\* what the previous handler produced is cleared when the next one begins;
\* run_ticks (time spent running in the session) is kept until the step after stop
ResetOut(s, opname) ==
    [s EXCEPT !.op = opname, !.signals = <<>>, !.notices = <<>>,
              !.writes = <<>>, !.dispatched = <<>>, !.raised = FALSE,
              !.ret = None,
              !.run_ticks = IF s.state = "idle" THEN 0 ELSE @]

Signal(name, st, a, b) == [name |-> name, st |-> st, a |-> a, b |-> b]

Emit(s, sig) == [s EXCEPT !.signals = Append(@, sig)]

\* ------------------------------------------------------------ TimerService
\* int(timedelta.total_seconds()): truncation toward zero
IntSeconds(delta) ==
    IF delta >= 0 THEN delta \div TicksPerSecond
    ELSE 0 - ((0 - delta) \div TicksPerSecond)

\* dt.replace(microsecond=0).isoformat(): the reading cut to whole seconds
dt_to_iso(dt) == dt \div TicksPerSecond

set_state(s, new_state) ==
    IF new_state # s.state
    THEN Emit([s EXCEPT !.state = new_state],
              Signal("state_changed", new_state, None, None))
    ELSE s

create_activity_instance(s, activity_id, start_time) ==
    [s EXCEPT !.instances = Append(@, [activity_id |-> activity_id,
                                       start_time |-> start_time,
                                       end_time |-> None,
                                       duration_seconds |-> None]),
              !.writes = Append(@, [kind |-> "insert",
                                    id |-> Len(s.instances) + 1])]

update_activity_instance_end(s, instance_id, end_time, duration_seconds) ==
    IF instance_id \in 1..Len(s.instances)
    THEN [s EXCEPT !.instances[instance_id].end_time = end_time,
                   !.instances[instance_id].duration_seconds = duration_seconds,
                   !.writes = Append(@, [kind |-> "update", id |-> instance_id])]
    ELSE [s EXCEPT !.writes = Append(@, [kind |-> "update", id |-> instance_id])]

\* start() without the check for an active session
start_unguarded(s, t, activity_id, insert_fails) ==
    LET s1 == [s EXCEPT !.activity_id = activity_id,
                        !.start_dt = t,
                        !.last_resume_dt = t]
    IN  IF insert_fails
        THEN [s1 EXCEPT !.raised = TRUE]
        ELSE LET s2 == create_activity_instance(s1, activity_id, dt_to_iso(t))
                 id == Len(s2.instances)
                 s3 == [s2 EXCEPT !.instance_id = id,
                                  !.paused_accum = 0,
                                  !.timer_active = TRUE,
                                  !.run_ticks = 0]
                 s4 == set_state(s3, "running")
                 s5 == Emit(s4, Signal("started", "", id, None))
                 s6 == Emit(s5, Signal("tick", "", 0, None))
             IN  [s6 EXCEPT !.ret = id]

\* start() that takes over the latest record instead of inserting a new one
start_reusing_record(s, t, activity_id, insert_fails) ==
    IF s.state \in {"running", "paused"}
    THEN [s EXCEPT !.raised = TRUE]
    ELSE LET id == IF s.instances = <<>> THEN None ELSE Len(s.instances)
             s3 == [s EXCEPT !.activity_id = activity_id,
                             !.start_dt = t,
                             !.last_resume_dt = t,
                             !.instance_id = id,
                             !.paused_accum = 0,
                             !.timer_active = TRUE,
                             !.run_ticks = 0]
             s4 == set_state(s3, "running")
             s5 == Emit(s4, Signal("started", "", id, None))
             s6 == Emit(s5, Signal("tick", "", 0, None))
         IN  [s6 EXCEPT !.ret = id]

\* start(activity_id); insert_fails: create_activity_instance raises
start(s, t, activity_id, insert_fails) ==
    IF s.state \in {"running", "paused"}
    THEN [s EXCEPT !.raised = TRUE]
    ELSE LET s1 == [s EXCEPT !.activity_id = activity_id,
                             !.start_dt = t,
                             !.last_resume_dt = t]
         IN  IF insert_fails
             THEN [s1 EXCEPT !.raised = TRUE]
             ELSE LET s2 == create_activity_instance(s1, activity_id, dt_to_iso(t))
                      id == Len(s2.instances)
                      s3 == [s2 EXCEPT !.instance_id = id,
                                       !.paused_accum = 0,
                                       !.timer_active = TRUE,
                                       !.run_ticks = 0]
                      s4 == set_state(s3, "running")
                      s5 == Emit(s4, Signal("started", "", id, None))
                      s6 == Emit(s5, Signal("tick", "", 0, None))
                  IN  [s6 EXCEPT !.ret = id]

\* pause without the test of the state
pause_unguarded(s, t) ==
    LET s1 == IF s.last_resume_dt # None
              THEN [s EXCEPT !.paused_accum = @ + IntSeconds(t - s.last_resume_dt)]
              ELSE s
        s2 == [s1 EXCEPT !.timer_active = FALSE]
        s3 == set_state(s2, "paused")
    IN  Emit(s3, Signal("paused", "", None, None))

pause(s, t) ==
    IF s.state # "running"
    THEN s
    ELSE LET s1 == IF s.last_resume_dt # None
                   THEN [s EXCEPT !.paused_accum = @ + IntSeconds(t - s.last_resume_dt)]
                   ELSE s
             s2 == [s1 EXCEPT !.timer_active = FALSE]
             s3 == set_state(s2, "paused")
         IN  Emit(s3, Signal("paused", "", None, None))

\* resume() without the check for the paused state
resume_unguarded(s, t) ==
    LET s1 == [s EXCEPT !.last_resume_dt = t, !.timer_active = TRUE]
        s2 == set_state(s1, "running")
    IN  Emit(s2, Signal("resumed", "", None, None))

resume(s, t) ==
    IF s.state # "paused"
    THEN s
    ELSE LET s1 == [s EXCEPT !.last_resume_dt = t, !.timer_active = TRUE]
             s2 == set_state(s1, "running")
         IN  Emit(s2, Signal("resumed", "", None, None))

\* stop() that finalizes the record but forgets to reset the session fields
stop_keeps_session(s, t, update_fails) ==
    IF s.state = "idle"
    THEN [s EXCEPT !.ret = None]
    ELSE LET s1 == [s EXCEPT !.timer_active = FALSE]
             s2 == IF s1.state = "running" /\ s1.last_resume_dt # None
                   THEN [s1 EXCEPT !.paused_accum = @ + IntSeconds(t - s1.last_resume_dt)]
                   ELSE s1
             duration == s2.paused_accum
             inst_id == s2.instance_id
         IN  IF inst_id # None /\ update_fails
             THEN [s2 EXCEPT !.raised = TRUE]
             ELSE LET s3 == IF inst_id # None
                            THEN update_activity_instance_end(s2, inst_id, dt_to_iso(t), duration)
                            ELSE s2
                      s6 == IF inst_id # None
                            THEN Emit(s3, Signal("stopped", "", inst_id, duration))
                            ELSE s3
                  IN  [s6 EXCEPT !.ret = inst_id]

\* stop() that resets the session without finalizing its record
stop_without_finalize(s, t, update_fails) ==
    IF s.state = "idle"
    THEN [s EXCEPT !.ret = None]
    ELSE LET s1 == [s EXCEPT !.timer_active = FALSE]
             s2 == IF s1.state = "running" /\ s1.last_resume_dt # None
                   THEN [s1 EXCEPT !.paused_accum = @ + IntSeconds(t - s1.last_resume_dt)]
                   ELSE s1
             duration == s2.paused_accum
             inst_id == s2.instance_id
             s4 == [s2 EXCEPT !.activity_id = None,
                              !.instance_id = None,
                              !.start_dt = None,
                              !.last_resume_dt = None,
                              !.paused_accum = 0]
             s5 == set_state(s4, "idle")
             s6 == IF inst_id # None
                   THEN Emit(s5, Signal("stopped", "", inst_id, duration))
                   ELSE s5
         IN  [s6 EXCEPT !.ret = inst_id]

\* stop(); update_fails: update_activity_instance_end raises
stop(s, t, update_fails) ==
    IF s.state = "idle"
    THEN [s EXCEPT !.ret = None]
    ELSE LET s1 == [s EXCEPT !.timer_active = FALSE]
             s2 == IF s1.state = "running" /\ s1.last_resume_dt # None
                   THEN [s1 EXCEPT !.paused_accum = @ + IntSeconds(t - s1.last_resume_dt)]
                   ELSE s1
             duration == s2.paused_accum
             inst_id == s2.instance_id
         IN  IF inst_id # None /\ update_fails
             THEN [s2 EXCEPT !.raised = TRUE]
             ELSE LET s3 == IF inst_id # None
                            THEN update_activity_instance_end(s2, inst_id, dt_to_iso(t), duration)
                            ELSE s2
                      s4 == [s3 EXCEPT !.activity_id = None,
                                       !.instance_id = None,
                                       !.start_dt = None,
                                       !.last_resume_dt = None,
                                       !.paused_accum = 0]
                      s5 == set_state(s4, "idle")
                      s6 == IF inst_id # None
                            THEN Emit(s5, Signal("stopped", "", inst_id, duration))
                            ELSE s5
                  IN  [s6 EXCEPT !.ret = inst_id]

\* _on_tick without the check for the running state
on_tick_unguarded(s, t) ==
    Emit(s, Signal("tick", "", s.paused_accum + IntSeconds(t - s.last_resume_dt), None))

on_tick(s, t) ==
    IF s.state # "running" \/ s.last_resume_dt = None
    THEN s
    ELSE Emit(s, Signal("tick", "", s.paused_accum + IntSeconds(t - s.last_resume_dt), None))

\* ------------------------------------------------------------------ state
NoEvent == [kind |-> "none", when |-> None, entry_id |-> None, activity_id |-> None]

TimerOff == [active |-> FALSE, due |-> None]

NoTimetable == [exists |-> FALSE, entries |-> <<>>]

Timetable(entries) == [exists |-> TRUE, entries |-> entries]

\* TimerService.__init__ and NotificationManager.__init__ before the first build
Constructed(dnd) ==
    [state |-> "idle", activity_id |-> None, instance_id |-> None,
     start_dt |-> None, paused_accum |-> 0, last_resume_dt |-> None,
     timer_active |-> FALSE,
     instances |-> <<>>,
     dnd |-> dnd,
     events |-> <<>>, built |-> <<>>, event_timer |-> TimerOff,
     last_start_notification |-> NoEvent,
     snooze_timer |-> None, snooze_pending |-> {}, snooze_created |-> 0,
     snoozed |-> NoEvent,
     op |-> "init", signals |-> <<>>, notices |-> <<>>, writes |-> <<>>,
     dispatched |-> <<>>, raised |-> FALSE, ret |-> None,
     run_ticks |-> 0]


Unpaired == [on |-> FALSE]

\* ------------------------------------------------------- time-of-day text
\* A stored time is a sequence of characters.
Digits == {"0", "1", "2", "3", "4", "5", "6", "7", "8", "9"}

CharCode ==
    [c \in Digits \cup {"-", ":", "T", "Z"} |->
        CASE c = "-" -> 45
          [] c = "0" -> 48 [] c = "1" -> 49 [] c = "2" -> 50 [] c = "3" -> 51
          [] c = "4" -> 52 [] c = "5" -> 53 [] c = "6" -> 54 [] c = "7" -> 55
          [] c = "8" -> 56 [] c = "9" -> 57
          [] c = ":" -> 58 [] c = "T" -> 84 [] c = "Z" -> 90]

DigitValue(c) == CharCode[c] - CharCode["0"]

\* str.split(":")
RECURSIVE split_colon(_, _, _)
split_colon(str, i, cur) ==
    IF i > Len(str) THEN <<cur>>
    ELSE IF str[i] = ":" THEN <<cur>> \o split_colon(str, i + 1, <<>>)
    ELSE split_colon(str, i + 1, Append(cur, str[i]))

RECURSIVE digits_value(_, _)
digits_value(str, acc) ==
    IF str = <<>> THEN acc
    ELSE digits_value(Tail(str), (acc * 10) + DigitValue(Head(str)))

\* int(text): an optional sign and at least one digit, anything else raises
int_of(str) ==
    LET body == IF str # <<>> /\ Head(str) = "-" THEN Tail(str) ELSE str
        neg == str # <<>> /\ Head(str) = "-"
    IN  IF body = <<>> \/ \E i \in 1..Len(body) : body[i] \notin Digits
        THEN [ok |-> FALSE, val |-> 0]
        ELSE [ok |-> TRUE,
              val |-> IF neg THEN 0 - digits_value(body, 0) ELSE digits_value(body, 0)]

\* _parse_hhmm: the minute of the day, or not ok when the code raises
parse_hhmm(hhmm) ==
    LET parts == split_colon(hhmm, 1, <<>>)
    IN  IF Len(parts) # 2 THEN [ok |-> FALSE, minute |-> 0]
        ELSE LET hh == int_of(parts[1])
                 mm == int_of(parts[2])
             IN  IF hh.ok /\ mm.ok /\ hh.val \in 0..23 /\ mm.val \in 0..59
                 THEN [ok |-> TRUE, minute |-> (hh.val * 60) + mm.val]
                 ELSE [ok |-> FALSE, minute |-> 0]

\* datetime.combine(now.date(), t) in ticks since midnight
combine(minute) == minute * 60 * TicksPerSecond

\* SQLite text order (ORDER BY start_time): bytewise, a prefix sorts first
RECURSIVE text_less(_, _)
text_less(a, b) ==
    IF b = <<>> THEN FALSE
    ELSE IF a = <<>> THEN TRUE
    ELSE IF CharCode[Head(a)] # CharCode[Head(b)]
         THEN CharCode[Head(a)] < CharCode[Head(b)]
         ELSE text_less(Tail(a), Tail(b))

\* what list_timetable_entries can return: rows in start_time order
list_timetable_entries_ordered(entries) ==
    \A i, j \in 1..Len(entries) :
        i < j => ~text_less(entries[j].start_time, entries[i].start_time)

\* ---------------------------------------------------- NotificationManager
SNOOZE_MS == 5 * 60 * 1000

SnoozeTicks == (SNOOZE_MS * TicksPerSecond) \div 1000

is_dnd(s) == s.dnd = "1"

\* _notify without the Do-Not-Disturb check
notify_ignoring_dnd(s, text, activity_id, force_tray) ==
    [s EXCEPT !.notices = Append(@, [text |-> text, activity_id |-> activity_id])]

\* _notify: one visible notification (toast and tray balloon) unless DND
notify(s, text, activity_id, force_tray) ==
    IF ~force_tray /\ is_dnd(s)
    THEN s
    ELSE [s EXCEPT !.notices = Append(@, [text |-> text, activity_id |-> activity_id])]

show_start_notification(s, ev) == notify(s, "Slot starting", ev.activity_id, FALSE)

TimetableEvent(when, kind, entry_id, activity_id) ==
    [when |-> when, kind |-> kind, entry_id |-> entry_id, activity_id |-> activity_id]

\* list.sort(key=when): stable insertion by timestamp
\* a sort that places an event before the events of the same timestamp
insert_by_when_before_equal(sorted, ev) ==
    LET k == Cardinality({i \in 1..Len(sorted) : sorted[i].when < ev.when})
    IN  SubSeq(sorted, 1, k) \o <<ev>> \o SubSeq(sorted, k + 1, Len(sorted))

insert_by_when(sorted, ev) ==
    LET k == Cardinality({i \in 1..Len(sorted) : sorted[i].when <= ev.when})
    IN  SubSeq(sorted, 1, k) \o <<ev>> \o SubSeq(sorted, k + 1, Len(sorted))

RECURSIVE sort_by_when(_, _)
sort_by_when(evs, sorted) ==
    IF evs = <<>> THEN sorted
    ELSE sort_by_when(Tail(evs), insert_by_when(sorted, Head(evs)))

\* the two events of one entry, keeping a slot whose end equals its start
entry_events_nonstrict(e) ==
    LET st == parse_hhmm(e.start_time)
        et == parse_hhmm(e.end_time)
    IN  IF ~(st.ok /\ et.ok) THEN <<>>
        ELSE IF combine(et.minute) < combine(st.minute) THEN <<>>
        ELSE <<TimetableEvent(combine(st.minute), "start", e.id, e.activity_id),
               TimetableEvent(combine(et.minute), "end", e.id, e.activity_id)>>

\* the two events of one entry, none when it does not parse or end <= start
entry_events(e) ==
    LET st == parse_hhmm(e.start_time)
        et == parse_hhmm(e.end_time)
    IN  IF ~(st.ok /\ et.ok) THEN <<>>
        ELSE IF combine(et.minute) <= combine(st.minute) THEN <<>>
        ELSE <<TimetableEvent(combine(st.minute), "start", e.id, e.activity_id),
               TimetableEvent(combine(et.minute), "end", e.id, e.activity_id)>>

\* a loop that ends at the first row it cannot turn into events
RECURSIVE append_entries_until_invalid(_, _)
append_entries_until_invalid(entries, evs) ==
    IF entries = <<>> \/ entry_events(Head(entries)) = <<>> THEN evs
    ELSE append_entries_until_invalid(Tail(entries), evs \o entry_events(Head(entries)))

RECURSIVE append_entries(_, _)
append_entries(entries, evs) ==
    IF entries = <<>> THEN evs
    ELSE append_entries(Tail(entries), evs \o entry_events(Head(entries)))

\* the loop and the sort of _build_today_schedule
build_events(entries) == sort_by_when(append_entries(entries, <<>>), <<>>)

\* pruning that keeps an event whose time is the present reading
RECURSIVE drop_past_strict(_, _)
drop_past_strict(evs, t) ==
    IF evs # <<>> /\ Head(evs).when < t THEN drop_past_strict(Tail(evs), t) ELSE evs

RECURSIVE drop_past(_, _)
drop_past(evs, t) ==
    IF evs # <<>> /\ Head(evs).when <= t THEN drop_past(Tail(evs), t) ELSE evs

schedule_next(s, t) ==
    LET evs == drop_past(s.events, t)
    IN  IF evs = <<>>
        THEN [s EXCEPT !.events = evs, !.event_timer = TimerOff]
        ELSE [s EXCEPT !.events = evs,
                       !.event_timer = [active |-> TRUE, due |-> Head(evs).when]]

\* a rebuild that keeps the old event list when today has no timetable
build_today_schedule_keeps_list(s, t, tt) ==
    IF ~tt.exists
    THEN [s EXCEPT !.built = <<>>]
    ELSE schedule_next([s EXCEPT !.events = build_events(tt.entries),
                                 !.built = build_events(tt.entries)], t)

\* a rebuild that also cancels a pending snooze replay
build_today_schedule_cancels_snooze(s, t, tt) ==
    LET s0 == [s EXCEPT !.snooze_pending = {}]
    IN  IF ~tt.exists
        THEN [s0 EXCEPT !.events = <<>>, !.built = <<>>]
        ELSE schedule_next([s0 EXCEPT !.events = build_events(tt.entries),
                                      !.built = build_events(tt.entries)], t)

build_today_schedule(s, t, tt) ==
    IF ~tt.exists
    THEN [s EXCEPT !.events = <<>>, !.built = <<>>]
    ELSE schedule_next([s EXCEPT !.events = build_events(tt.entries),
                                 !.built = build_events(tt.entries)], t)

\* _handle_slot_start that skips the auto-start under Do-Not-Disturb
handle_slot_start_unless_dnd(s, t, ev, insert_fails) ==
    LET s1 == [s EXCEPT !.last_start_notification = ev,
                        !.dispatched = Append(@, ev)]
        s2 == show_start_notification(s1, ev)
        s3 == IF s2.state = "idle" /\ ~is_dnd(s2)
              THEN [start(s2, t, ev.activity_id, insert_fails)
                        EXCEPT !.raised = FALSE, !.ret = None]
              ELSE s2
    IN  Emit(s3, Signal("slot_start", "", ev.activity_id, None))

\* _handle_slot_start that switches a timer busy with another activity
handle_slot_start_switching(s, t, ev, insert_fails) ==
    LET s1 == [s EXCEPT !.last_start_notification = ev,
                        !.dispatched = Append(@, ev)]
        s2 == show_start_notification(s1, ev)
        s3 == IF s2.state # "idle" /\ s2.activity_id # ev.activity_id
              THEN [stop(s2, t, FALSE) EXCEPT !.raised = FALSE, !.ret = None]
              ELSE s2
        s4 == IF s3.state = "idle"
              THEN [start(s3, t, ev.activity_id, insert_fails)
                        EXCEPT !.raised = FALSE, !.ret = None]
              ELSE s3
    IN  Emit(s4, Signal("slot_start", "", ev.activity_id, None))

\* handle_slot_start that does not remember the event
handle_slot_start_forgetting(s, t, ev, insert_fails) ==
    LET s1 == [s EXCEPT !.dispatched = Append(@, ev)]
        s2 == show_start_notification(s1, ev)
        s3 == IF s2.state = "idle"
              THEN [start(s2, t, ev.activity_id, insert_fails)
                        EXCEPT !.raised = FALSE, !.ret = None]
              ELSE s2
    IN  Emit(s3, Signal("slot_start", "", ev.activity_id, None))

handle_slot_start(s, t, ev, insert_fails) ==
    LET s1 == [s EXCEPT !.last_start_notification = ev,
                        !.dispatched = Append(@, ev)]
        s2 == show_start_notification(s1, ev)
        s3 == IF s2.state = "idle"
              THEN [start(s2, t, ev.activity_id, insert_fails)
                        EXCEPT !.raised = FALSE, !.ret = None]
              ELSE s2
    IN  Emit(s3, Signal("slot_start", "", ev.activity_id, None))

\* _handle_slot_end that stops the timer whatever activity it tracks
handle_slot_end_any_activity(s, t, ev, insert_fails, update_fails) ==
    LET s0 == [s EXCEPT !.dispatched = Append(@, ev)]
        s1 == IF s0.state \in {"running", "paused"}
              THEN [stop(s0, t, update_fails) EXCEPT !.ret = None]
              ELSE s0
    IN  IF s1.raised THEN s1
        ELSE LET s2 == notify(s1, "Slot ended", ev.activity_id, FALSE)
                 s3 == IF /\ s2.events # <<>>
                          /\ Head(s2.events).kind = "start"
                          /\ Head(s2.events).when - ev.when < TicksPerSecond
                          /\ ev.when - Head(s2.events).when < TicksPerSecond
                       THEN handle_slot_start([s2 EXCEPT !.events = Tail(@)], t,
                                              Head(s2.events), insert_fails)
                       ELSE s2
             IN  Emit(s3, Signal("slot_end", "", ev.activity_id, None))

\* handle_slot_end that chains into any Start event of the same minute or the next
handle_slot_end_chain_next_minute(s, t, ev, insert_fails, update_fails) ==
    LET s0 == [s EXCEPT !.dispatched = Append(@, ev)]
        s1 == IF s0.state \in {"running", "paused"} /\ s0.activity_id = ev.activity_id
              THEN [stop(s0, t, update_fails) EXCEPT !.ret = None]
              ELSE s0
    IN  IF s1.raised THEN s1
        ELSE LET s2 == notify(s1, "Slot ended", ev.activity_id, FALSE)
                 s3 == IF /\ s2.events # <<>>
                          /\ Head(s2.events).kind = "start"
                          /\ Head(s2.events).when - ev.when <= 60 * TicksPerSecond
                       THEN handle_slot_start([s2 EXCEPT !.events = Tail(@)], t,
                                              Head(s2.events), insert_fails)
                       ELSE s2
             IN  Emit(s3, Signal("slot_end", "", ev.activity_id, None))

handle_slot_end(s, t, ev, insert_fails, update_fails) ==
    LET s0 == [s EXCEPT !.dispatched = Append(@, ev)]
        s1 == IF s0.state \in {"running", "paused"} /\ s0.activity_id = ev.activity_id
              THEN [stop(s0, t, update_fails) EXCEPT !.ret = None]
              ELSE s0
    IN  IF s1.raised THEN s1
        ELSE LET s2 == notify(s1, "Slot ended", ev.activity_id, FALSE)
                 s3 == IF /\ s2.events # <<>>
                          /\ Head(s2.events).kind = "start"
                          /\ Head(s2.events).when - ev.when < TicksPerSecond
                          /\ ev.when - Head(s2.events).when < TicksPerSecond
                       THEN handle_slot_start([s2 EXCEPT !.events = Tail(@)], t,
                                              Head(s2.events), insert_fails)
                       ELSE s2
             IN  Emit(s3, Signal("slot_end", "", ev.activity_id, None))

\* a turn that takes the last event of the list instead of the head
process_last_event(s, t, insert_fails, update_fails) ==
    IF s.events = <<>> THEN s
    ELSE LET ev == s.events[Len(s.events)]
             s1 == [s EXCEPT !.events = SubSeq(@, 1, Len(@) - 1)]
             s2 == IF ev.kind = "start"
                   THEN handle_slot_start(s1, t, ev, insert_fails)
                   ELSE handle_slot_end(s1, t, ev, insert_fails, update_fails)
         IN  IF s2.raised THEN s2 ELSE schedule_next(s2, t)

process_next_event(s, t, insert_fails, update_fails) ==
    IF s.events = <<>> THEN s
    ELSE LET ev == Head(s.events)
             s1 == [s EXCEPT !.events = Tail(@)]
             s2 == IF ev.kind = "start"
                   THEN handle_slot_start(s1, t, ev, insert_fails)
                   ELSE handle_slot_end(s1, t, ev, insert_fails, update_fails)
         IN  IF s2.raised THEN s2 ELSE schedule_next(s2, t)

\* snooze_current that leaves the previous snooze timer running
snooze_current_keeps_old(s, t) ==
    IF s.last_start_notification = NoEvent THEN s
    ELSE LET id == s.snooze_created + 1
             s1 == [s EXCEPT !.snooze_pending =
                                 @ \cup {[id |-> id, due |-> t + SnoozeTicks]},
                             !.snooze_timer = id,
                             !.snooze_created = id,
                             !.snoozed = s.last_start_notification]
         IN  notify(s1, "Snoozed", None, FALSE)

snooze_current(s, t) ==
    IF s.last_start_notification = NoEvent THEN s
    ELSE LET id == s.snooze_created + 1
             s1 == [s EXCEPT !.snooze_pending =
                                 {q \in @ : q.id # s.snooze_timer}
                                 \cup {[id |-> id, due |-> t + SnoozeTicks]},
                             !.snooze_timer = id,
                             !.snooze_created = id,
                             !.snoozed = s.last_start_notification]
         IN  notify(s1, "Snoozed", None, FALSE)

\* a replay that dispatches the remembered Start event again
snooze_timeout_redispatch(s, q) ==
    handle_slot_start([s EXCEPT !.snooze_pending = @ \ {q}], q.due,
                      s.last_start_notification, FALSE)

\* the timeout of one pending snooze QTimer q (single shot)
snooze_timeout(s, q) ==
    show_start_notification([s EXCEPT !.snooze_pending = @ \ {q}],
                            s.last_start_notification)

set_dnd(s, enabled) ==
    notify([s EXCEPT !.dnd = IF enabled THEN "1" ELSE "0"],
           IF enabled THEN "Do Not Disturb ON" ELSE "Do Not Disturb OFF", None, TRUE)

\* one handler run: the same call is applied to the paired run when there is one
Step(F(_)) ==
    /\ sys' = F(sys)
    /\ shadow' = IF shadow.on THEN F(shadow) ELSE shadow

\* ---------------------------------------------------------------- actions
\* cap bounds the sessions on record when the user presses Start
UserStart(Fails, cap) ==
    \E a \in ActivityIds, f \in Fails :
        /\ Len(sys.instances) < cap
        /\ Step(LAMBDA s : start(ResetOut(s, "start"), now, a, f))
        /\ UNCHANGED <<now, timetable>>

UserPause ==
    /\ Step(LAMBDA s : pause(ResetOut(s, "pause"), now))
    /\ UNCHANGED <<now, timetable>>

UserResume ==
    /\ Step(LAMBDA s : resume(ResetOut(s, "resume"), now))
    /\ UNCHANGED <<now, timetable>>

UserStop(Fails) ==
    \E f \in Fails :
        /\ Step(LAMBDA s : stop(ResetOut(s, "stop"), now, f))
        /\ UNCHANGED <<now, timetable>>

\* the repeating 1000 ms QTimer of the TimerService times out
TickTimeout ==
    /\ sys.timer_active
    /\ Step(LAMBDA s : on_tick(ResetOut(s, "tick"), now))
    /\ UNCHANGED <<now, timetable>>

\* the wall clock moves on by d ticks; run_ticks records the time spent running
Elapse(s, d) ==
    LET s1 == ResetOut(s, "advance")
    IN  IF s1.state = "running" THEN [s1 EXCEPT !.run_ticks = @ + d] ELSE s1

AdvanceClock(Steps, horizon) ==
    \E d \in Steps :
        /\ now + d <= ClockStart + horizon
        /\ now' = now + d
        /\ Step(LAMBDA s : Elapse(s, d))
        /\ UNCHANGED timetable

\* the single-shot QTimer _event_timer times out
EventTimerTimeout(Fails) ==
    \E fi \in Fails, fu \in Fails :
        /\ sys.event_timer.active
        /\ now >= sys.event_timer.due
        /\ Step(LAMBDA s : process_next_event(
                    [ResetOut(s, "event") EXCEPT !.event_timer = TimerOff],
                    now, fi, fu))
        /\ UNCHANGED <<now, timetable>>

\* tray menu "Snooze 5m"
SnoozeCurrent ==
    /\ sys.snooze_created < MaxSnoozes
    /\ Step(LAMBDA s : snooze_current(ResetOut(s, "snooze"), now))
    /\ UNCHANGED <<now, timetable>>

SnoozeTimeout ==
    \E q \in sys.snooze_pending :
        /\ now >= q.due
        /\ Step(LAMBDA s : snooze_timeout(ResetOut(s, "replay"), q))
        /\ UNCHANGED <<now, timetable>>

\* tray menu "Do Not Disturb"; a paired run makes its own choice
SetDnd ==
    \E b \in BOOLEAN, c \in BOOLEAN :
        /\ shadow.on \/ c = b
        /\ sys' = set_dnd(ResetOut(sys, "dnd"), b)
        /\ shadow' = IF shadow.on THEN set_dnd(ResetOut(shadow, "dnd"), c) ELSE shadow
        /\ UNCHANGED <<now, timetable>>

\* NotificationManager.refresh()
Refresh ==
    /\ Step(LAMBDA s : build_today_schedule(ResetOut(s, "refresh"), now, timetable))
    /\ UNCHANGED <<now, timetable>>

\* the planner stores today's timetable; app.py wires the save to refresh()
SaveTimetable(Saved) ==
    \E tt \in Saved :
        /\ tt # timetable
        /\ timetable' = tt
        /\ Step(LAMBDA s : build_today_schedule(ResetOut(s, "refresh"), now, tt))
        /\ UNCHANGED now

\* repositories.delete_timetable: today's timetable row goes away
DeleteTimetable ==
    /\ timetable.exists
    /\ timetable' = NoTimetable
    /\ Step(LAMBDA s : ResetOut(s, "delete"))
    /\ UNCHANGED now

\* ------------------------------------------------------------- timetables
HHMM(a, b, c, d) == <<a, b, ":", c, d>>

HMM(a, c, d) == <<a, ":", c, d>>

IsoTime == <<"2", "0", "2", "5", "-", "0", "1", "-", "0", "1", "T",
             "0", "9", ":", "0", "0", ":", "0", "0", "Z">>

Entry(id, activity_id, start_time, end_time) ==
    [id |-> id, activity_id |-> activity_id,
     start_time |-> start_time, end_time |-> end_time]

\* slot A 09:00-09:01 (activity 1) followed by slot B 09:01-09:02 (activity 2)
ChainEntries ==
    <<Entry(1, 1, HHMM("0", "9", "0", "0"), HHMM("0", "9", "0", "1")),
      Entry(2, 2, HHMM("0", "9", "0", "1"), HHMM("0", "9", "0", "2"))>>

\* the same two slots, A stored as "9:00"-"9:01": B's row is listed first
ChainEntriesUnpadded ==
    <<Entry(1, 2, HHMM("0", "9", "0", "1"), HHMM("0", "9", "0", "2")),
      Entry(2, 1, HMM("9", "0", "0"), HMM("9", "0", "1"))>>

\* a slot with a gap before the next one, both for activity 1
GapEntries ==
    <<Entry(1, 1, HHMM("0", "9", "0", "0"), HHMM("0", "9", "0", "1")),
      Entry(2, 1, HHMM("0", "9", "0", "2"), HHMM("0", "9", "0", "3"))>>

\* no valid slot: end before start, and times in the planner's stored form
InvalidEntries ==
    <<Entry(1, 1, HHMM("0", "9", "0", "1"), HHMM("0", "9", "0", "0")),
      Entry(2, 2, IsoTime, IsoTime)>>

ScenarioEntries ==
    {<<>>, ChainEntries, ChainEntriesUnpadded, GapEntries, InvalidEntries}

SavedTimetables ==
    {Timetable(e) : e \in {x \in ScenarioEntries : list_timetable_entries_ordered(x)}}

Minute == 60 * TicksPerSecond

\* ---------------------------------------------------- driver specification
\* The schedule driver with the timer it commands (started and stopped by
\* the user or by the driver); storage is healthy, Do-Not-Disturb stays off.
Init ==
    /\ now = ClockStart
    /\ timetable \in SavedTimetables \cup {NoTimetable}
    /\ sys = build_today_schedule(Constructed("0"), now, timetable)
    /\ shadow = Unpaired

Next ==
    \/ UserStart({FALSE}, MaxUserStarts)
    \/ UserStop({FALSE})
    \/ AdvanceClock({Minute}, DriverHorizon * Minute)
    \/ EventTimerTimeout({FALSE})
    \/ Refresh
    \/ SaveTimetable(SavedTimetables)
    \/ DeleteTimetable

Spec == Init /\ [][Next]_vars

\* ------------------------------------------------- reminder specification
\* Reminders of a fixed timetable: Do-Not-Disturb and snooze.
InitNotify ==
    /\ now = ClockStart
    /\ timetable = Timetable(ChainEntries)
    /\ \E dnd \in {"unset", "0", "1"} :
           sys = build_today_schedule(Constructed(dnd), now, timetable)
    /\ shadow = Unpaired

NextNotify ==
    \/ AdvanceClock({Minute, SnoozeTicks}, NotifyHorizon * Minute)
    \/ EventTimerTimeout({FALSE})
    \/ UserStop({FALSE})
    \/ SnoozeCurrent
    \/ SnoozeTimeout
    \/ SetDnd

SpecNotify == InitNotify /\ [][NextNotify]_vars

\* ---------------------------------------------------- paired specification
\* Two runs that receive the same calls and timeouts and differ in the
\* Do-Not-Disturb setting only.
InitPair ==
    /\ now = ClockStart
    /\ timetable = Timetable(ChainEntries)
    /\ \E dnd \in {"unset", "0", "1"}, dnd2 \in {"unset", "0", "1"} :
           /\ sys = build_today_schedule(Constructed(dnd), now, timetable)
           /\ shadow = [on |-> TRUE] @@ build_today_schedule(Constructed(dnd2), now, timetable)

NextPair ==
    \/ UserStart({FALSE}, MaxUserStarts)
    \/ UserPause
    \/ UserResume
    \/ UserStop({FALSE})
    \/ AdvanceClock({Minute}, PairHorizon * Minute)
    \/ EventTimerTimeout({FALSE})
    \/ SetDnd

SpecPair == InitPair /\ [][NextPair]_vars

\* ----------------------------------------------------- build specification
\* The schedule build on every short list of rows storage can return.
BuildTimes ==
    {HHMM("0", "9", "0", "0"), HHMM("0", "9", "0", "1"), HMM("9", "0", "1"),
     HHMM("2", "4", "0", "0"), IsoTime}

BuildRows ==
    {Entry(0, a, st, et) : a \in {1}, st \in BuildTimes, et \in BuildTimes}

BuildLists ==
    UNION {{[i \in 1..n |-> [f[i] EXCEPT !.id = i]] : f \in [1..n -> BuildRows]} :
           n \in 0..MaxEntries}

InitBuild ==
    /\ now = ClockStart
    /\ timetable \in {Timetable(e) : e \in {x \in BuildLists : list_timetable_entries_ordered(x)}}
    /\ sys = Constructed("0")
    /\ shadow = Unpaired

NextBuild == Refresh

SpecBuild == InitBuild /\ [][NextBuild]_vars

\* --------------------------------------------------- timer specification
InitTimer ==
    /\ now = ClockStart
    /\ timetable = NoTimetable
    /\ sys = Constructed("0")
    /\ shadow = Unpaired

NextTimer ==
    \/ UserStart({FALSE}, MaxSessions)
    \/ UserPause
    \/ UserResume
    \/ UserStop({FALSE})
    \/ TickTimeout
    \/ AdvanceClock({1}, TimerHorizon)

SpecTimer == InitTimer /\ [][NextTimer]_vars

\* ------------------------------------------- storage-failure specification
\* Dispatch turns during which a storage statement of the timer may raise.
InitFail ==
    /\ now = ClockStart
    /\ timetable \in {Timetable(ChainEntries), Timetable(GapEntries)}
    /\ sys = build_today_schedule(Constructed("0"), now, timetable)
    /\ shadow = Unpaired

NextFail ==
    \/ UserStart({FALSE}, MaxUserStarts)
    \/ UserStop({FALSE})
    \/ AdvanceClock({Minute}, FailHorizon * Minute)
    \/ EventTimerTimeout(BOOLEAN)

SpecFail == InitFail /\ [][NextFail]_vars

\* ---------------------------------------------------- tick specification
\* a timeout of the 1000 ms QTimer that was already due when the handler
\* before it ran: the callback runs whatever that handler did to the timer
StaleTickTimeout ==
    /\ Step(LAMBDA s : on_tick(ResetOut(s, "tick"), now))
    /\ UNCHANGED <<now, timetable>>

NextTick ==
    \/ UserStart({FALSE}, MaxSessions)
    \/ UserPause
    \/ UserResume
    \/ UserStop({FALSE})
    \/ TickTimeout
    \/ StaleTickTimeout
    \/ AdvanceClock({1}, TickHorizon)

SpecTick == InitTimer /\ [][NextTick]_vars

\* -------------------------------------------------- rebuild specification
\* The schedule driver alone: wake-ups and rebuilds at half-minute readings.
HalfMinute == 30 * TicksPerSecond

InitRebuild ==
    /\ now = ClockStart
    /\ timetable \in {Timetable(ChainEntries), NoTimetable}
    /\ sys = build_today_schedule(Constructed("0"), now, timetable)
    /\ shadow = Unpaired

NextRebuild ==
    \/ AdvanceClock({HalfMinute}, RebuildHorizon * HalfMinute)
    \/ EventTimerTimeout({FALSE})
    \/ Refresh
    \/ SaveTimetable(SavedTimetables)
    \/ DeleteTimetable

SpecRebuild == InitRebuild /\ [][NextRebuild]_vars

\* ------------------------------------------- timer/timetable sync specification
\* Slot boundaries meeting a timer the user starts, pauses, resumes and stops.
InitSync ==
    /\ now = ClockStart
    /\ timetable \in {Timetable(ChainEntries), Timetable(GapEntries)}
    /\ sys = build_today_schedule(Constructed("0"), now, timetable)
    /\ shadow = Unpaired

NextSync ==
    \/ UserStart({FALSE}, MaxUserStarts)
    \/ UserPause
    \/ UserResume
    \/ UserStop({FALSE})
    \/ AdvanceClock({Minute}, SyncHorizon * Minute)
    \/ EventTimerTimeout({FALSE})

SpecSync == InitSync /\ [][NextSync]_vars

\* ------------------------------------------------------------ planner page
\* A row of the planner's slot table: an activity and two time texts.
Slot(activity, start_text, end_text) ==
    [activity |-> activity, start |-> start_text, end |-> end_text]

\* to_minutes: h * 60 + m of "h:m", or not ok when the code raises
to_minutes(hm) ==
    LET parts == split_colon(hm, 1, <<>>)
    IN  IF Len(parts) # 2 THEN [ok |-> FALSE, val |-> 0]
        ELSE LET h == int_of(parts[1])
                 m == int_of(parts[2])
             IN  IF h.ok /\ m.ok
                 THEN [ok |-> TRUE, val |-> (h.val * 60) + m.val]
                 ELSE [ok |-> FALSE, val |-> 0]

\* sorted(slots, key=to_minutes(start)): stable insertion by start minute
insert_by_start(sorted, slot) ==
    LET k == Cardinality({i \in 1..Len(sorted) :
                             to_minutes(sorted[i].start).val <= to_minutes(slot.start).val})
    IN  SubSeq(sorted, 1, k) \o <<slot>> \o SubSeq(sorted, k + 1, Len(sorted))

RECURSIVE sorted_by_start(_, _)
sorted_by_start(slots, sorted) ==
    IF slots = <<>> THEN sorted
    ELSE sorted_by_start(Tail(slots), insert_by_start(sorted, Head(slots)))

\* the loop over zip(ordered, ordered[1:]) from pair i on
RECURSIVE overlap_scan(_, _)
overlap_scan(ordered, i) ==
    IF i >= Len(ordered) THEN "false"
    ELSE IF ~to_minutes(ordered[i].end).ok THEN "raise"
    ELSE IF to_minutes(ordered[i].end).val > to_minutes(ordered[i + 1].start).val
         THEN "true"
    ELSE overlap_scan(ordered, i + 1)

\* detect_overlaps that also reports slots that only touch
detect_overlaps_touching(slots) ==
    IF \E i \in 1..Len(slots) : ~to_minutes(slots[i].start).ok THEN "raise"
    ELSE LET ordered == sorted_by_start(slots, <<>>)
         IN  IF \E i \in 1..(Len(ordered) - 1) :
                    /\ to_minutes(ordered[i].end).ok
                    /\ to_minutes(ordered[i].end).val >= to_minutes(ordered[i + 1].start).val
             THEN "true"
             ELSE overlap_scan(ordered, 1)

\* detect_overlaps: "true", "false", or "raise" when a text it reads is malformed
detect_overlaps(slots) ==
    IF \E i \in 1..Len(slots) : ~to_minutes(slots[i].start).ok THEN "raise"
    ELSE overlap_scan(sorted_by_start(slots, <<>>), 1)

DateText == <<"2", "0", "2", "5", "-", "0", "1", "-", "0", "1">>

\* f"{date}T{s.start}:00Z"
stored_time(hm) == DateText \o <<"T">> \o hm \o <<":", "0", "0", "Z">>

\* PlannerPage._on_save on the rows of the slot table
on_save(page, stored) ==
    LET found == detect_overlaps(page.slots)
    IN  IF found = "raise"
        THEN [page |-> [page EXCEPT !.op = "save", !.raised = TRUE, !.toast = ""],
              stored |-> stored]
        ELSE IF found = "true"
        THEN [page |-> [page EXCEPT !.op = "save", !.raised = FALSE,
                                    !.toast = "Resolve overlaps first"],
              stored |-> stored]
        ELSE [page |-> [page EXCEPT !.op = "save", !.raised = FALSE,
                                    !.toast = "Timetable saved"],
              stored |-> Timetable([i \in 1..Len(page.slots) |->
                            Entry(i, page.slots[i].activity,
                                  stored_time(page.slots[i].start),
                                  stored_time(page.slots[i].end))])]

\* Save button of the planner page
OnSave ==
    /\ sys' = on_save(sys, timetable).page
    /\ timetable' = on_save(sys, timetable).stored
    /\ UNCHANGED <<now, shadow>>

SlotTimes ==
    {HHMM("0", "9", "0", "0"), HMM("9", "0", "1"), HHMM("0", "9", "0", "2"), <<"9">>}

SlotRows == {Slot(1, st, et) : st \in SlotTimes, et \in SlotTimes}

SlotLists == UNION {[1..n -> SlotRows] : n \in 0..MaxSlots}

\* the page with its slot table filled in, nothing stored for the date yet
InitPlanner ==
    /\ now = ClockStart
    /\ timetable = NoTimetable
    /\ \E slots \in SlotLists :
           sys = [op |-> "init", slots |-> slots, raised |-> FALSE, toast |-> ""]
    /\ shadow = Unpaired

NextPlanner == OnSave

SpecPlanner == InitPlanner /\ [][NextPlanner]_vars

\* ----------------------------------------------------------- Gemini client
GeminiClientConfig(api_key, max_retries) == [api_key |-> api_key, max_retries |-> max_retries]

\* What one POST can come to: a 2xx answer with a JSON body, status 429, another
\* status >= 400, an exception of the transport, a 2xx answer whose body is not JSON
Responses == {"ok", "rate_limited", "http_error", "transport_error", "not_json"}

retry_exhausted_early(attempt, max_retries) == attempt >= max_retries

\* if attempt > self._config.max_retries: raise
retry_exhausted(attempt, max_retries) == attempt > max_retries

\* The while True loop of classify_title: server[k] answers the k-th request
RECURSIVE classify_loop(_, _, _, _)
classify_loop(config, server, call, attempt) ==
    LET sent == call.sent + 1
        posted == [call EXCEPT !.sent = sent]
    IN  IF server[sent] = "ok"
        THEN [posted EXCEPT !.outcome = "returned", !.ret = sent]
        ELSE IF retry_exhausted(attempt + 1, config.max_retries)
        THEN [posted EXCEPT !.outcome = "raised"]
        ELSE classify_loop(config, server,
                           [posted EXCEPT !.slept = Append(@, attempt)], attempt + 1)

\* GeminiClient.classify_title
classify_title(config, server) ==
    LET call == [op |-> "classify", config |-> config, server |-> server,
                 outcome |-> "", sent |-> 0, ret |-> 0, slept |-> <<>>]
    IN  IF config.api_key = ""
        THEN [call EXCEPT !.outcome = "raised"]
        ELSE classify_loop(config, server, call, 0)

\* One call of classify_title against a server that answers as scripted
ClassifyTitle ==
    /\ sys.op = "init"
    /\ sys' = classify_title(sys.config, sys.server)
    /\ UNCHANGED <<now, timetable, shadow>>

\* a client with its configuration; the server's answers to successive requests
InitGemini ==
    /\ now = ClockStart
    /\ timetable = NoTimetable
    /\ shadow = Unpaired
    /\ \E api_key \in {"", "k"}, max_retries \in 0..MaxRetries,
          server \in [1..(MaxRetries + 2) -> Responses] :
           sys = [op |-> "init", config |-> GeminiClientConfig(api_key, max_retries),
                  server |-> server, outcome |-> "", sent |-> 0, ret |-> 0,
                  slept |-> <<>>]

NextGemini == ClassifyTitle

SpecGemini == InitGemini /\ [][NextGemini]_vars

\* ------------------------------------------------- clock that is stepped back
\* The time provider (datetime.utcnow by default) returns an earlier reading
\* than before: the system clock was set back.
RewindClock(Steps, horizon) ==
    \E d \in Steps :
        /\ now - d >= ClockStart - horizon
        /\ sys.paused_accum <= horizon
        /\ 0 - sys.paused_accum <= horizon
        /\ sys.run_ticks <= horizon
        /\ now' = now - d
        /\ Step(LAMBDA s : ResetOut(s, "rewind"))
        /\ UNCHANGED timetable

NextClock ==
    \/ UserStart({FALSE}, MaxUserStarts)
    \/ UserPause
    \/ UserResume
    \/ UserStop({FALSE})
    \/ TickTimeout
    \/ AdvanceClock({1}, ClockHorizon)
    \/ RewindClock({1, TicksPerSecond}, ClockHorizon)

SpecClock == InitTimer /\ [][NextClock]_vars

\* ------------------------------------------------------ application restart
\* The process ends and the application is launched again on the same database
\* file: a new TimerService, the stored session records as they were left.
restart(s) == [Constructed(s.dnd) EXCEPT !.instances = s.instances, !.op = "restart"]

Restart ==
    /\ Step(restart)
    /\ UNCHANGED <<now, timetable>>

NextRestart ==
    \/ UserStart({FALSE}, MaxSessions)
    \/ UserPause
    \/ UserResume
    \/ UserStop({FALSE})
    \/ AdvanceClock({1}, RestartHorizon)
    \/ Restart

SpecRestart == InitTimer /\ [][NextRestart]_vars

\* ---------------------------------------------- storage failing under stop()
\* stop() from the dashboard while update_activity_instance_end raises
UserStopFailing(cap) ==
    /\ sys.paused_accum <= cap
    /\ Step(LAMBDA s : stop(ResetOut(s, "stop"), now, TRUE))
    /\ UNCHANGED <<now, timetable>>

NextStopFail ==
    \/ UserStart(BOOLEAN, MaxUserStarts)
    \/ UserPause
    \/ UserResume
    \/ UserStop({FALSE})
    \/ UserStopFailing(StopFailHorizon)
    \/ TickTimeout
    \/ AdvanceClock({1}, StopFailHorizon)

SpecStopFail == InitTimer /\ [][NextStopFail]_vars

\* ------------------------------------------- timetables with shared instants
\* two slots that start at the same minute
SameStartEntries ==
    <<Entry(1, 1, HHMM("0", "9", "0", "0"), HHMM("0", "9", "0", "1")),
      Entry(2, 2, HHMM("0", "9", "0", "0"), HHMM("0", "9", "0", "2"))>>

\* two slots that end at the minute a third one starts
TwoEndsOneStartEntries ==
    <<Entry(1, 1, HHMM("0", "9", "0", "0"), HHMM("0", "9", "0", "2")),
      Entry(2, 1, HHMM("0", "9", "0", "1"), HHMM("0", "9", "0", "2")),
      Entry(3, 2, HHMM("0", "9", "0", "2"), HHMM("0", "9", "0", "3"))>>

SharedInstantTimetables ==
    {Timetable(e) : e \in {x \in {ChainEntries, GapEntries, SameStartEntries,
                                  TwoEndsOneStartEntries} :
                               list_timetable_entries_ordered(x)}}

\* The clock moves on while no armed wake-up is due: the event loop runs every
\* wake-up at its due time.
PunctualAdvance(Steps, horizon) ==
    /\ ~(sys.event_timer.active /\ now >= sys.event_timer.due)
    /\ AdvanceClock(Steps, horizon)

InitPunctual ==
    /\ now = ClockStart
    /\ timetable \in SharedInstantTimetables
    /\ \E dnd \in {"unset", "0", "1"} :
           sys = build_today_schedule(Constructed(dnd), now, timetable)
    /\ shadow = Unpaired

NextPunctual ==
    \/ PunctualAdvance({Minute}, PunctualHorizon * Minute)
    \/ EventTimerTimeout({FALSE})
    \/ UserStop({FALSE})
    \/ SetDnd

SpecPunctual == InitPunctual /\ [][NextPunctual]_vars

\* Wake-ups that may run after their due time; no timer button is used and the
\* schedule is not rebuilt.
NextLate ==
    \/ AdvanceClock({HalfMinute}, LateHorizon * Minute)
    \/ EventTimerTimeout({FALSE})
    \/ SetDnd

SpecLate == InitPunctual /\ [][NextLate]_vars

\* ------------------------------------------------ rebuilds among everything
\* Rebuilds while the timer tracks a session, a start notification is
\* remembered and a snooze replay is pending.
NextFrame ==
    \/ AdvanceClock({Minute}, FrameHorizon * Minute)
    \/ EventTimerTimeout({FALSE})
    \/ UserPause
    \/ SnoozeCurrent
    \/ Refresh
    \/ SaveTimetable(SavedTimetables)

SpecFrame == InitRebuild /\ [][NextFrame]_vars

\* ------------------------------------------- planner save, then schedule build
\* The planner page saves its slot table for today; the notification manager
\* builds its schedule from what was stored at the next refresh().
SavedSlotLists == UNION {[1..n -> SlotRows] : n \in 0..MaxSavedSlots}

PlannerSave ==
    \E slots \in SavedSlotLists :
        LET saved == on_save([op |-> "init", slots |-> slots,
                              raised |-> FALSE, toast |-> ""], timetable)
        IN  /\ saved.page.toast = "Timetable saved"
            /\ list_timetable_entries_ordered(saved.stored.entries)
            /\ timetable' = saved.stored
            /\ Step(LAMBDA s : ResetOut(s, "save"))
            /\ UNCHANGED now

NextSaveBuild ==
    \/ PlannerSave
    \/ Refresh
    \/ AdvanceClock({Minute}, SaveBuildHorizon * Minute)

InitSaveBuild ==
    /\ now = ClockStart
    /\ timetable = NoTimetable
    /\ sys = build_today_schedule(Constructed("0"), now, timetable)
    /\ shadow = Unpaired

SpecSaveBuild == InitSaveBuild /\ [][NextSaveBuild]_vars

\* ------------------------------------------------------------------ claims
TimerActive(s) == s.state \in {"running", "paused"}

\* the Elapsed Timer as the claims see it
TimerFields(s) ==
    <<s.state, s.activity_id, s.instance_id, s.paused_accum, s.instances>>

HasSignal(s, name) == \E i \in 1..Len(s.signals) : s.signals[i].name = name

\* C1: the duration stop() persists is the time spent in state running
\* (whole seconds of the sum of the running intervals).
C1_DurationIsRunningTime ==
    (sys.op = "stop" /\ sys.ret # None)
        => sys.instances[sys.ret].duration_seconds = sys.run_ticks \div TicksPerSecond

\* C2: a stop() directly after a completed stop() returns nothing, emits
\* nothing, writes nothing and leaves the timer idle and the records as they were.
C2_SecondStopNoOp ==
    [][(sys.op = "stop" /\ ~sys.raised /\ sys'.op = "stop")
          => /\ sys'.ret = None
             /\ sys'.signals = <<>>
             /\ sys'.writes = <<>>
             /\ sys'.state = "idle"
             /\ TimerFields(sys') = TimerFields(sys)]_vars

C2_Witness ==
    /\ sys.op = "stop"
    /\ sys.ret = None
    /\ sys.state = "idle"
    /\ Len(sys.instances) = 1
    /\ sys.instances[1].end_time # None

\* C3: start() while running or paused raises and changes neither the state,
\* the activity, the session id, the accumulated seconds nor the records.
C3_StartWhileActiveRaises ==
    [][(TimerActive(sys) /\ sys'.op = "start")
          => /\ sys'.raised
             /\ sys'.writes = <<>>
             /\ TimerFields(sys') = TimerFields(sys)]_vars

C3_Witness ==
    /\ sys.op = "start"
    /\ sys.raised
    /\ sys.state = "paused"
    /\ sys.paused_accum > 0

\* C4: when the wake-up for the instant at which slot A ends and slot B
\* starts times out while the timer tracks A's activity, that turn dispatches
\* A's End and then B's Start and leaves the timer running for B's activity.
C4_Adjacent(s, a, b) ==
    /\ a.kind = "end" /\ b.kind = "start"
    /\ a.when = b.when
    /\ a.entry_id # b.entry_id
    /\ s.event_timer.active /\ s.event_timer.due = a.when
    /\ TimerActive(s) /\ s.activity_id = a.activity_id

C4_ChainedHandover ==
    [][\A i, j \in 1..Len(sys.events) :
          (C4_Adjacent(sys, sys.events[i], sys.events[j]) /\ sys'.op = "event")
              => /\ sys'.dispatched = <<sys.events[i], sys.events[j]>>
                 /\ sys'.state = "running"
                 /\ sys'.activity_id = sys.events[j].activity_id
                 /\ sys'.start_dt = now]_vars

\* C5: the timer, its sessions and every signal are the same in two runs that
\* differ in the Do-Not-Disturb setting only.
C5_View(s) ==
    <<s.state, s.activity_id, s.instance_id, s.paused_accum, s.last_resume_dt,
      s.instances, s.signals, s.events, s.event_timer>>

C5_DndNonInterference == shadow.on => C5_View(sys) = C5_View(shadow)

C5_Witness ==
    /\ shadow.on
    /\ is_dnd(sys) # is_dnd(shadow)
    /\ sys.op = "event"
    /\ HasSignal(sys, "started")
    /\ HasSignal(sys, "stopped")
    /\ Len(sys.notices) # Len(shadow.notices)

\* C6: under Do-Not-Disturb a dispatch turn and a snooze replay show nothing;
\* otherwise a dispatch turn shows one notification per dispatched event.
C6_NoticeFor(ev) ==
    [text |-> IF ev.kind = "start" THEN "Slot starting" ELSE "Slot ended",
     activity_id |-> ev.activity_id]

C6_DndGatesNotifications ==
    /\ (sys.op \in {"event", "replay"} /\ is_dnd(sys)) => sys.notices = <<>>
    /\ (sys.op = "event" /\ ~is_dnd(sys))
           => /\ Len(sys.notices) = Len(sys.dispatched)
              /\ \A i \in 1..Len(sys.dispatched) :
                     sys.notices[i] = C6_NoticeFor(sys.dispatched[i])

C6_Witness ==
    /\ sys.op = "event"
    /\ is_dnd(sys)
    /\ Len(sys.dispatched) = 2
    /\ sys.state = "running"

\* C7: at most one snooze timer is pending; after snooze() it is the one just
\* created, due 300 seconds after the call; the replay shows the start
\* notification once and leaves none pending.
C7_SingleSnooze ==
    /\ Cardinality(sys.snooze_pending) <= 1
    /\ (sys.op = "snooze" /\ sys.last_start_notification # NoEvent)
           => sys.snooze_pending =
                  {[id |-> sys.snooze_timer, due |-> now + (300 * TicksPerSecond)]}
    /\ sys.op = "replay"
           => /\ sys.snooze_pending = {}
              /\ ~is_dnd(sys) =>
                     sys.notices = <<[text |-> "Slot starting",
                                      activity_id |-> sys.last_start_notification.activity_id]>>

C7_Witness ==
    /\ sys.op = "snooze"
    /\ sys.snooze_created = 2
    /\ now < ClockStart + SnoozeTicks
    /\ Cardinality(sys.snooze_pending) = 1

\* C8: snooze() and its replay leave the timer, its records, the event list
\* and the armed wake-up as they were.
C8_SnoozeFrame ==
    [][sys'.op \in {"snooze", "replay"}
          => /\ TimerFields(sys') = TimerFields(sys)
             /\ sys'.last_resume_dt = sys.last_resume_dt
             /\ sys'.timer_active = sys.timer_active
             /\ sys'.events = sys.events
             /\ sys'.event_timer = sys.event_timer]_vars

C8_Witness ==
    /\ sys.op = "replay"
    /\ sys.notices # <<>>
    /\ sys.state = "idle"
    /\ Len(sys.instances) = 2

\* C9: the build yields one Start and one End event for every row whose times
\* parse with end after start, none for any other row, in timestamp order.
C9_Valid(e) ==
    /\ parse_hhmm(e.start_time).ok
    /\ parse_hhmm(e.end_time).ok
    /\ parse_hhmm(e.end_time).minute > parse_hhmm(e.start_time).minute

C9_Count(evs, e, kind) ==
    Cardinality({i \in 1..Len(evs) : evs[i].entry_id = e.id /\ evs[i].kind = kind})

C9_BuildTwoPerValidSlot ==
    (sys.op = "refresh" /\ timetable.exists)
        => /\ \A k \in 1..Len(timetable.entries) :
                  LET e == timetable.entries[k]
                      n == IF C9_Valid(e) THEN 1 ELSE 0
                  IN  /\ C9_Count(sys.built, e, "start") = n
                      /\ C9_Count(sys.built, e, "end") = n
           /\ Len(sys.built) =
                  2 * Cardinality({k \in 1..Len(timetable.entries) :
                                       C9_Valid(timetable.entries[k])})
           /\ \A i \in 1..(Len(sys.built) - 1) :
                  sys.built[i].when <= sys.built[i + 1].when

C9_Witness ==
    /\ sys.op = "refresh"
    /\ Len(timetable.entries) = 2
    /\ C9_Valid(timetable.entries[1])
    /\ ~C9_Valid(timetable.entries[2])
    /\ Len(sys.built) = 2

\* C10: after a rebuild that leaves the event list empty no wake-up is armed.
C10_EmptyScheduleDisarms ==
    (sys.op = "refresh" /\ sys.events = <<>>) => ~sys.event_timer.active

\* C11: a dispatch turn never ends in an escaped failure, and it leaves the
\* wake-up for the next remaining event armed.
C11_DispatchSurvivesStorageFailure ==
    sys.op = "event"
        => /\ ~sys.raised
           /\ sys.events # <<>>
                  => /\ sys.event_timer.active
                     /\ sys.event_timer.due = Head(sys.events).when

\* C12: start(a) from idle with storage succeeding ends running for a with
\* zero accumulated seconds, appends one open record, returns its id and emits
\* started(id) followed by tick(0).
C12_Open(a, t) ==
    [activity_id |-> a, start_time |-> dt_to_iso(t),
     end_time |-> None, duration_seconds |-> None]

C12_StartOpensSession ==
    [][\A a \in ActivityIds :
          (sys.state = "idle" /\ sys' = start(ResetOut(sys, "start"), now, a, FALSE))
              => /\ sys'.state = "running"
                 /\ sys'.activity_id = a
                 /\ sys'.paused_accum = 0
                 /\ sys'.instances = Append(sys.instances, C12_Open(a, now))
                 /\ sys'.ret = Len(sys'.instances)
                 /\ sys'.instance_id = sys'.ret
                 /\ sys'.writes = <<[kind |-> "insert", id |-> sys'.ret]>>
                 /\ \E i \in 1..Len(sys'.signals) :
                        /\ i + 1 = Len(sys'.signals)
                        /\ sys'.signals[i] = Signal("started", "", sys'.ret, None)
                        /\ sys'.signals[i + 1] = Signal("tick", "", 0, None)]_vars

C12_Witness ==
    /\ sys.op = "start"
    /\ sys.state = "running"
    /\ sys.ret = 2
    /\ sys.activity_id = 2
    /\ sys.instances[1].end_time # None
    /\ sys.instances[2].end_time = None

\* C13: stop() while running or paused returns the id start() returned,
\* finalizes that record and no other, emits stopped(id, persisted duration)
\* and leaves the timer idle with no activity and zero accumulated seconds.
C13_StopFinalizesSession ==
    [][(TimerActive(sys) /\ sys'.op = "stop" /\ ~sys'.raised)
          => LET id == sys.instance_id
             IN  /\ id = Len(sys.instances)
                 /\ sys'.ret = id
                 /\ Len(sys'.instances) = Len(sys.instances)
                 /\ \A k \in 1..Len(sys.instances) :
                        k # id => sys'.instances[k] = sys.instances[k]
                 /\ sys'.instances[id].activity_id = sys.instances[id].activity_id
                 /\ sys'.instances[id].start_time = sys.instances[id].start_time
                 /\ sys'.instances[id].end_time = dt_to_iso(now)
                 /\ sys'.instances[id].duration_seconds # None
                 /\ sys'.writes = <<[kind |-> "update", id |-> id]>>
                 /\ sys'.signals # <<>>
                 /\ sys'.signals[Len(sys'.signals)] =
                        Signal("stopped", "", id, sys'.instances[id].duration_seconds)
                 /\ sys'.state = "idle"
                 /\ sys'.activity_id = None
                 /\ sys'.instance_id = None
                 /\ sys'.paused_accum = 0]_vars

C13_Witness ==
    /\ sys.op = "stop"
    /\ sys.ret = 2
    /\ sys.state = "idle"
    /\ sys.instances[2].duration_seconds = 1
    /\ sys.instances[2].end_time # None
    /\ HasSignal(sys, "stopped")

\* C14: pause() outside running and resume() outside paused change nothing
\* and emit nothing.
C14_MisplacedPauseResumeNoOp ==
    [][(\/ sys.state # "running" /\ sys'.op = "pause"
        \/ sys.state # "paused" /\ sys'.op = "resume")
          => /\ TimerFields(sys') = TimerFields(sys)
             /\ sys'.start_dt = sys.start_dt
             /\ sys'.last_resume_dt = sys.last_resume_dt
             /\ sys'.timer_active = sys.timer_active
             /\ sys'.signals = <<>>
             /\ sys'.writes = <<>>]_vars

C14_Witness ==
    /\ sys.op = "resume"
    /\ sys.state = "running"
    /\ sys.signals = <<>>
    /\ sys.paused_accum > 0
    /\ sys.timer_active

\* C15: a tick delivered a whole number of seconds after the last resume
\* reports the running time of the session so far, pause gaps excluded.
C15_TickIsRunningTime ==
    (/\ sys.op = "tick"
     /\ sys.signals # <<>>
     /\ now - sys.last_resume_dt >= TicksPerSecond
     /\ (now - sys.last_resume_dt) % TicksPerSecond = 0)
        => sys.signals[1].a = sys.run_ticks \div TicksPerSecond

\* C16: a tick is emitted in state running only; a tick callback that runs
\* while the timer is paused or idle emits nothing.
C16_NoTickUnlessRunning ==
    /\ HasSignal(sys, "tick") => sys.state = "running"
    /\ (sys.op = "tick" /\ sys.state # "running") => sys.signals = <<>>

C16_Witness ==
    /\ sys.op = "tick"
    /\ sys.state = "paused"
    /\ ~sys.timer_active
    /\ sys.paused_accum > 0
    /\ sys.signals = <<>>

\* C17: a row whose times do not parse or whose end is not after its start
\* yields no event; every other row of the list yields its Start and End.
C17_Skipped(e) ==
    \/ ~parse_hhmm(e.start_time).ok
    \/ ~parse_hhmm(e.end_time).ok
    \/ parse_hhmm(e.end_time).minute <= parse_hhmm(e.start_time).minute

C17_InBuilt(ev) == \E i \in 1..Len(sys.built) : sys.built[i] = ev

C17_InvalidSlotSkippedOthersKept ==
    (sys.op = "refresh" /\ timetable.exists)
        => \A k \in 1..Len(timetable.entries) :
               LET e == timetable.entries[k]
               IN  IF C17_Skipped(e)
                   THEN \A i \in 1..Len(sys.built) : sys.built[i].entry_id # e.id
                   ELSE /\ C17_InBuilt(TimetableEvent(
                               combine(parse_hhmm(e.start_time).minute),
                               "start", e.id, e.activity_id))
                        /\ C17_InBuilt(TimetableEvent(
                               combine(parse_hhmm(e.end_time).minute),
                               "end", e.id, e.activity_id))

C17_Witness ==
    /\ sys.op = "refresh"
    /\ Len(timetable.entries) = 2
    /\ ~parse_hhmm(timetable.entries[1].end_time).ok
    /\ ~C17_Skipped(timetable.entries[2])
    /\ Len(sys.built) = 2
    /\ sys.built[1].entry_id = 2

\* C18: a rebuild leaves only events later than its clock reading in the list
\* (of a slot it falls into: the End but not the Start), a dispatch turn takes
\* its events from the list, and nothing but a rebuild adds to the list; so no
\* event at or before the reading of a rebuild is dispatched after it.
C18_Listed(evs, ev) == \E i \in 1..Len(evs) : evs[i] = ev

C18_NoRetroactiveDispatch ==
    [][/\ sys'.op = "refresh"
           => /\ \A i \in 1..Len(sys'.events) : sys'.events[i].when > now
              /\ timetable'.exists
                     => \A k \in 1..Len(timetable'.entries) :
                            LET e == timetable'.entries[k]
                                st == parse_hhmm(e.start_time)
                                et == parse_hhmm(e.end_time)
                            IN  (/\ st.ok /\ et.ok
                                 /\ combine(st.minute) <= now
                                 /\ now < combine(et.minute))
                                    => /\ ~C18_Listed(sys'.events, TimetableEvent(
                                              combine(st.minute), "start", e.id, e.activity_id))
                                       /\ C18_Listed(sys'.events, TimetableEvent(
                                              combine(et.minute), "end", e.id, e.activity_id))
       /\ sys'.op = "event"
              => \A i \in 1..Len(sys'.dispatched) :
                     C18_Listed(sys.events, sys'.dispatched[i])
       /\ sys'.op # "refresh"
              => \A i \in 1..Len(sys'.events) : C18_Listed(sys.events, sys'.events[i])]_vars

C18_Witness ==
    /\ sys.op = "event"
    /\ sys.dispatched # <<>>
    /\ sys.dispatched[1].kind = "end"
    /\ sys.instances = <<>>
    /\ sys.state = "idle"

\* C19: every event a dispatch turn dispatches belongs to the list built by
\* the latest rebuild.
C19_DispatchedFromLatestBuild ==
    sys.op = "event"
        => \A i \in 1..Len(sys.dispatched) :
               \E j \in 1..Len(sys.built) : sys.built[j] = sys.dispatched[i]

C19_Witness ==
    /\ sys.op = "event"
    /\ sys.dispatched # <<>>
    /\ sys.dispatched[1] = TimetableEvent(ClockStart + Minute, "start", 2, 1)
    /\ timetable = Timetable(ChainEntriesUnpadded)

\* C20: a dispatched Start event (alone, or chained after an End event) starts
\* an idle timer for the slot's activity and leaves an active timer's session
\* as it is.
C20_IdleAtStart(s, d) ==
    IF Len(d) = 2
    THEN ~TimerActive(s) \/ s.activity_id = d[1].activity_id
    ELSE s.state = "idle"

C20_StartEventSyncsTimer ==
    [][(/\ sys'.op = "event"
        /\ sys'.dispatched # <<>>
        /\ sys'.dispatched[Len(sys'.dispatched)].kind = "start")
          => LET ev == sys'.dispatched[Len(sys'.dispatched)]
                 n == Len(sys.instances)
             IN  IF C20_IdleAtStart(sys, sys'.dispatched)
                 THEN /\ sys'.state = "running"
                      /\ sys'.activity_id = ev.activity_id
                      /\ sys'.start_dt = now
                      /\ sys'.paused_accum = 0
                      /\ Len(sys'.instances) = n + 1
                      /\ sys'.instance_id = n + 1
                      /\ sys'.instances[n + 1].activity_id = ev.activity_id
                      /\ sys'.instances[n + 1].end_time = None
                 ELSE TimerFields(sys') = TimerFields(sys)]_vars

C20_Witness ==
    /\ sys.op = "event"
    /\ Len(sys.dispatched) = 1
    /\ sys.dispatched[1].kind = "start"
    /\ sys.state = "paused"
    /\ sys.activity_id # sys.dispatched[1].activity_id
    /\ Len(sys.instances) = 1

\* C21: a dispatched End event stops the timer exactly when it is running or
\* paused for the slot's activity; otherwise no session is stopped and, when
\* no Start event is chained, the timer's session is as it was.
C21_EndEventStopsOwnActivity ==
    [][(/\ sys'.op = "event"
        /\ sys'.dispatched # <<>>
        /\ sys'.dispatched[1].kind = "end")
          => LET ev == sys'.dispatched[1]
                 id == sys.instance_id
             IN  IF TimerActive(sys) /\ sys.activity_id = ev.activity_id
                 THEN /\ sys.instances[id].end_time = None
                      /\ sys'.instances[id].end_time = dt_to_iso(now)
                      /\ sys'.instances[id].duration_seconds # None
                      /\ HasSignal(sys', "stopped")
                      /\ Len(sys'.dispatched) = 1
                             => sys'.state = "idle" /\ sys'.activity_id = None
                 ELSE /\ ~HasSignal(sys', "stopped")
                      /\ \A k \in 1..Len(sys.instances) :
                             sys'.instances[k] = sys.instances[k]
                      /\ Len(sys'.dispatched) = 1
                             => TimerFields(sys') = TimerFields(sys)]_vars

C21_Witness ==
    /\ sys.op = "event"
    /\ Len(sys.dispatched) = 1
    /\ sys.dispatched[1].kind = "end"
    /\ sys.state = "paused"
    /\ sys.activity_id # sys.dispatched[1].activity_id
    /\ ~HasSignal(sys, "stopped")

\* C22 (as stated): detect_overlaps is true exactly when two slots share a time
\* interval of positive length, and a save is refused when it is true.
C22_Parses(slots) ==
    \A i \in 1..Len(slots) : to_minutes(slots[i].start).ok /\ to_minutes(slots[i].end).ok

C22_Shared(a, b) ==
    LET lo == IF to_minutes(a.start).val > to_minutes(b.start).val
              THEN to_minutes(a.start).val ELSE to_minutes(b.start).val
        hi == IF to_minutes(a.end).val < to_minutes(b.end).val
              THEN to_minutes(a.end).val ELSE to_minutes(b.end).val
    IN  lo < hi

C22_SomeShared(slots) ==
    \E i, j \in 1..Len(slots) : i < j /\ C22_Shared(slots[i], slots[j])

C22_OverlapIffSharedInterval ==
    (sys.op = "save" /\ C22_Parses(sys.slots))
        => /\ (detect_overlaps(sys.slots) = "true") = C22_SomeShared(sys.slots)
           /\ sys.toast = "Resolve overlaps first" <=> detect_overlaps(sys.slots) = "true"
           /\ detect_overlaps(sys.slots) = "true" => timetable = NoTimetable

\* C22 (amended): the same for lists whose slots all end after they start.
C22_Proper(slots) ==
    \A i \in 1..Len(slots) : to_minutes(slots[i].start).val < to_minutes(slots[i].end).val

C22_OverlapIffSharedIntervalProperSlots ==
    (sys.op = "save" /\ C22_Parses(sys.slots) /\ C22_Proper(sys.slots))
        => /\ (detect_overlaps(sys.slots) = "true") = C22_SomeShared(sys.slots)
           /\ sys.toast = "Resolve overlaps first" <=> detect_overlaps(sys.slots) = "true"
           /\ detect_overlaps(sys.slots) = "true" => timetable = NoTimetable
           /\ detect_overlaps(sys.slots) = "false" => timetable.exists

C22_Witness ==
    /\ sys.op = "save"
    /\ Len(sys.slots) = 2
    /\ C22_Parses(sys.slots)
    /\ C22_Proper(sys.slots)
    /\ to_minutes(sys.slots[2].end).val = to_minutes(sys.slots[1].start).val
    /\ sys.toast = "Timetable saved"
    /\ timetable.exists

\* C23: classify_title sends at most max_retries + 1 requests; it returns the
\* result of the first successful response and sends nothing after it; when
\* every attempt fails it raises after exactly max_retries + 1 attempts.
C23_BoundedRetries ==
    (sys.op = "classify" /\ sys.config.api_key # "")
        => /\ sys.sent <= sys.config.max_retries + 1
           /\ sys.outcome \in {"returned", "raised"}
           /\ sys.outcome = "returned"
                 => /\ sys.ret = sys.sent
                    /\ sys.server[sys.ret] = "ok"
                    /\ \A k \in 1..(sys.ret - 1) : sys.server[k] # "ok"
           /\ sys.outcome = "raised"
                 => /\ sys.sent = sys.config.max_retries + 1
                    /\ \A k \in 1..sys.sent : sys.server[k] # "ok"
           /\ (\E k \in 1..(sys.config.max_retries + 1) : sys.server[k] = "ok")
                 => sys.outcome = "returned"

C23_Witness ==
    /\ sys.op = "classify"
    /\ sys.config.max_retries = 2
    /\ sys.outcome = "raised"
    /\ sys.sent = 3
    /\ sys.server[1] = "rate_limited"
    /\ sys.server[2] = "http_error"
    /\ sys.server[3] = "transport_error"
    /\ sys.server[4] = "ok"

\* C24: whatever the operations and the clock readings, the accumulated
\* seconds, every tick value and every persisted duration are never negative.
C24_NeverNegative ==
    /\ sys.paused_accum >= 0
    /\ \A i \in 1..Len(sys.signals) :
           sys.signals[i].name = "tick" => sys.signals[i].a >= 0
    /\ \A k \in 1..Len(sys.instances) :
           sys.instances[k].end_time # None => sys.instances[k].duration_seconds >= 0

\* C25: at most one persisted session record is open (has no end time);
\* exactly one is open while the timer is running or paused, none while idle.
C25_Open(s) == {k \in 1..Len(s.instances) : s.instances[k].end_time = None}

C25_OneOpenRecordIffActive ==
    /\ Cardinality(C25_Open(sys)) <= 1
    /\ TimerActive(sys) => Cardinality(C25_Open(sys)) = 1
    /\ sys.state = "idle" => C25_Open(sys) = {}

\* C26: the timer state is idle, running or paused; it changes only by
\* idle->running (start), running->paused (pause), paused->running (resume),
\* running->idle or paused->idle (stop); state_changed is emitted once for each
\* change, carrying the new state, and not otherwise.
C26_Changes ==
    {<<"idle", "running", "start">>, <<"running", "paused", "pause">>,
     <<"paused", "running", "resume">>, <<"running", "idle", "stop">>,
     <<"paused", "idle", "stop">>}

C26_Notified(s) ==
    SelectSeq(s.signals, LAMBDA sig : sig.name = "state_changed")

C26_StateMachine ==
    [][/\ sys.state \in {"idle", "running", "paused"}
       /\ sys'.state \in {"idle", "running", "paused"}
       /\ sys'.state # sys.state
             => /\ <<sys.state, sys'.state, sys'.op>> \in C26_Changes
                /\ Len(C26_Notified(sys')) = 1
                /\ C26_Notified(sys')[1].st = sys'.state
       /\ sys'.state = sys.state => C26_Notified(sys') = <<>>]_vars

C26_Witness ==
    /\ sys.op = "stop"
    /\ sys.state = "idle"
    /\ Len(C26_Notified(sys)) = 1
    /\ C26_Notified(sys)[1].st = "idle"
    /\ Len(sys.instances) = MaxSessions

\* C27: in the built event list, events with equal timestamps are in the order
\* of their slots in the input list, and a slot's Start event comes before its
\* own End event.
C27_SlotPosition(ev) ==
    CHOOSE k \in 1..Len(timetable.entries) : timetable.entries[k].id = ev.entry_id

C27_StableTieOrder ==
    (sys.op = "refresh" /\ timetable.exists)
        => \A p, q \in 1..Len(sys.built) :
               /\ (p < q /\ sys.built[p].when = sys.built[q].when)
                     => C27_SlotPosition(sys.built[p]) < C27_SlotPosition(sys.built[q])
               /\ (/\ sys.built[p].entry_id = sys.built[q].entry_id
                   /\ sys.built[p].kind = "start"
                   /\ sys.built[q].kind = "end") => p < q

C27_Witness ==
    /\ sys.op = "refresh"
    /\ Len(sys.built) = 4
    /\ sys.built[1].when = sys.built[2].when
    /\ sys.built[2].entry_id = 2
    /\ sys.built[3].entry_id = 1
    /\ sys.built[3].when = sys.built[4].when

\* C28: after every rebuild and every completed dispatch turn a non-empty event
\* list has its wake-up armed for the timestamp of the head event, and a
\* wake-up is never armed for anything but the head event.
C28_HeadArmed ==
    sys.events # <<>>
        => /\ sys.event_timer.active
           /\ sys.event_timer.due = Head(sys.events).when

C28_SingleWakeupForHead ==
    /\ C28_HeadArmed
    /\ sys.event_timer.active
          => /\ sys.events # <<>>
             /\ sys.event_timer.due = Head(sys.events).when

\* C29: between two rebuilds events are dispatched in list order: a dispatched
\* event is the head of the list when it is dispatched, and no event dispatched
\* later has an earlier timestamp.
C29_DispatchInListOrder ==
    [][/\ (sys'.op = "event" /\ sys'.dispatched # <<>>)
             => LET n == Len(sys'.dispatched)
                IN  /\ n <= Len(sys.events)
                    /\ \A i \in 1..n : sys'.dispatched[i] = sys.events[i]
                    /\ \A i \in 1..(n - 1) :
                           sys'.dispatched[i].when <= sys'.dispatched[i + 1].when
                    /\ \E k \in n..Len(sys.events) :
                           sys'.events = SubSeq(sys.events, k + 1, Len(sys.events))
                    /\ \A i \in 1..n, j \in 1..Len(sys'.events) :
                           sys'.dispatched[i].when <= sys'.events[j].when
       /\ sys'.op \notin {"event", "refresh"} => sys'.events = sys.events]_vars

C29_Witness ==
    /\ sys.op = "event"
    /\ Len(sys.dispatched) = 2
    /\ sys.dispatched[1].kind = "end"
    /\ sys.dispatched[2].kind = "start"
    /\ sys.dispatched[1].when = sys.dispatched[2].when
    /\ sys.events # <<>>

\* C30: when an End event has been handled, the event then at the head of the
\* list is taken from the list and dispatched in the same turn, before the
\* wake-up is armed again, exactly when it is a Start event at most one second
\* away from the End event; otherwise the End handler leaves it in the list and
\* it is dispatched, if at all, by the wake-up armed for its own timestamp.
C30_Near(ev, rest) ==
    /\ rest # <<>>
    /\ Head(rest).kind = "start"
    /\ Head(rest).when - ev.when <= TicksPerSecond
    /\ ev.when - Head(rest).when <= TicksPerSecond

C31_Starts(s) == SelectSeq(s.dispatched, LAMBDA ev : ev.kind = "start")

C31_LastStartRemembered ==
    [][/\ (sys'.op = "event" /\ C31_Starts(sys') # <<>>)
             => sys'.last_start_notification = C31_Starts(sys')[Len(C31_Starts(sys'))]
       /\ sys'.last_start_notification # sys.last_start_notification
             => (sys'.op = "event" /\ C31_Starts(sys') # <<>>)
       /\ (sys'.op = "snooze" /\ sys.last_start_notification = NoEvent)
             => /\ sys'.snooze_pending = {}
                /\ sys'.snooze_timer = sys.snooze_timer
                /\ sys'.snooze_created = sys.snooze_created
                /\ sys'.notices = <<>>
                /\ sys'.signals = <<>>]_vars

C31_Witness ==
    /\ sys.op = "event"
    /\ Len(sys.dispatched) = 2
    /\ sys.dispatched[2].kind = "start"
    /\ sys.last_start_notification = sys.dispatched[2]
    /\ sys.dispatched[2].entry_id = 2

\* C32: a stop() whose storage write fails leaves the timer's state and its
\* accumulated seconds as they were before the call.
C32_FailedStopLeavesTimer ==
    [][(sys'.op = "stop" /\ sys'.raised)
          => /\ sys'.state = sys.state
             /\ sys'.paused_accum = sys.paused_accum]_vars

\* C33: whenever the timer is idle, also after a start() whose storage call
\* failed, the current activity id and the session id are empty and the
\* accumulated seconds are 0.
C33_IdleHasNoSession ==
    sys.state = "idle"
        => /\ sys.activity_id = None
           /\ sys.instance_id = None
           /\ sys.paused_accum = 0

\* C34: the repeating tick callback is active exactly when the timer is
\* running, also after a start() or stop() whose storage call failed.
C34_TickActiveIffRunning ==
    sys.timer_active <=> sys.state = "running"

\* C35: without a rebuild every event of the built list that lay after the
\* build time is dispatched exactly once: an event leaves the list only by
\* being dispatched, and a dispatched event is no longer in the list.
C35_In(evs, ev) == \E i \in 1..Len(evs) : evs[i] = ev

C35_EveryEventDispatchedOnce ==
    [][/\ \A i \in 1..Len(sys.events) :
              C35_In(sys'.events, sys.events[i])
                  \/ (sys'.op = "event" /\ C35_In(sys'.dispatched, sys.events[i]))
       /\ \A i \in 1..Len(sys'.dispatched) :
              ~C35_In(sys'.events, sys'.dispatched[i])]_vars

\* C36: with no timer button used and no rebuild, a session auto-started by a
\* slot's Start event is never left running with its End event discarded: while
\* the session is open, an End event for its activity is still in the list.
C36_AutoStartedSessionHasEndAhead ==
    TimerActive(sys)
        => \E i \in 1..Len(sys.events) :
               /\ sys.events[i].kind = "end"
               /\ sys.events[i].activity_id = sys.activity_id

\* C37: the snooze replay shows the start notification that was remembered
\* when snooze() was called, whatever Start event was dispatched since.
C37_ReplayShowsSnoozedReminder ==
    (sys.op = "replay" /\ sys.notices # <<>>)
        => sys.notices = <<[text |-> "Slot starting",
                            activity_id |-> sys.snoozed.activity_id]>>

\* C38: in a chained turn (the End of slot A followed at once by the Start of
\* slot B) the slot_end signal for A is emitted before the slot_start signal
\* for B.
C38_EndSignalBeforeChainedStart ==
    (/\ sys.op = "event"
     /\ Len(sys.dispatched) = 2
     /\ sys.dispatched[1].kind = "end"
     /\ sys.dispatched[2].kind = "start")
        => \E i, j \in 1..Len(sys.signals) :
               /\ i < j
               /\ sys.signals[i].name = "slot_end"
               /\ sys.signals[i].a = sys.dispatched[1].activity_id
               /\ sys.signals[j].name = "slot_start"
               /\ sys.signals[j].a = sys.dispatched[2].activity_id

\* C39: a rebuild of the schedule changes only the event list and the armed
\* wake-up: the timer (state, activity, session, accumulated seconds, stored
\* sessions), the remembered last-start notification and a pending snooze
\* replay are as before, and nothing is notified or written.
C39_RebuildFrame ==
    [][sys'.op = "refresh"
          => /\ TimerFields(sys') = TimerFields(sys)
             /\ sys'.start_dt = sys.start_dt
             /\ sys'.last_resume_dt = sys.last_resume_dt
             /\ sys'.timer_active = sys.timer_active
             /\ sys'.last_start_notification = sys.last_start_notification
             /\ sys'.snooze_pending = sys.snooze_pending
             /\ sys'.snooze_timer = sys.snooze_timer
             /\ sys'.dnd = sys.dnd
             /\ sys'.signals = <<>>
             /\ sys'.notices = <<>>
             /\ sys'.writes = <<>>]_vars

C39_Witness ==
    /\ sys.op = "refresh"
    /\ sys.state = "paused"
    /\ sys.last_start_notification # NoEvent
    /\ sys.snooze_pending # {}
    /\ sys.events # sys.built
    /\ sys.events # <<>>

\* C40: every slot the planner saved for today with end after start and start
\* still ahead yields, at the next schedule build, one Start event at its start
\* time and one End event at its end time.
C40_SavedAs(e, st, et) ==
    /\ e.start_time = stored_time(st)
    /\ e.end_time = stored_time(et)
    /\ to_minutes(st).ok
    /\ to_minutes(et).ok
    /\ to_minutes(st).val < to_minutes(et).val
    /\ combine(to_minutes(st).val) > now

C40_SavedSlotsAreScheduled ==
    (sys.op = "refresh" /\ timetable.exists)
        => \A k \in 1..Len(timetable.entries), st \in SlotTimes, et \in SlotTimes :
               LET e == timetable.entries[k]
               IN  C40_SavedAs(e, st, et)
                      => /\ C9_Count(sys.built, e, "start") = 1
                         /\ C9_Count(sys.built, e, "end") = 1
                         /\ C17_InBuilt(TimetableEvent(combine(to_minutes(st).val),
                                                       "start", e.id, e.activity_id))
                         /\ C17_InBuilt(TimetableEvent(combine(to_minutes(et).val),
                                                       "end", e.id, e.activity_id))

====
